---- MODULE Spec2Model ----
(***************************************************************************)
(* Model of OpenMS::IdentificationDataInternal::ScoredProcessingResult     *)
(* (ScoredProcessingResult.h): the container of applied processing steps   *)
(* with their scores, its mutators (addProcessingStep, addScore,           *)
(* operator+=) and its queries (getScore, getScoreAndStep).                *)
(*                                                                         *)
(* The boost::multi_index_container is modelled as the sequence of its     *)
(* sequenced index (index 0); the ordered_unique index (index 1) is        *)
(* modelled by the lookups and the insertion check made over that          *)
(* sequence.  The MetaInfoInterface base class is not part of the model.   *)
(***************************************************************************)
EXTENDS Integers, Sequences, FiniteSets, TLC

\* ---- bounds of the model ------------------------------------------------
NumSteps == 1        \* number of distinct ProcessingStepRef values
NumTypes == 2        \* number of distinct ScoreTypeRef values
NumValues == 2       \* number of distinct score values
MaxOtherLen == 2     \* longest `other` passed to operator+=
MaxCopyCalls == 4    \* calls made on an object and its copy

\* ---- value domains ------------------------------------------------------
\* boost::none of boost::optional<ProcessingStepRef>; it orders before
\* every engaged optional.
None == 0

\* std::numeric_limits<double>::quiet_NaN(), a value no score has.
NaN == -1

ProcessingStepRefs == 1..NumSteps

StepOpts == {None} \cup ProcessingStepRefs

ScoreTypeRefs == 1..NumTypes

Scores == 1..NumValues

\* std::map<ScoreTypeRef, double>: a function on a subset of the score types.
ScoreMaps == UNION {[D -> Scores] : D \in SUBSET ScoreTypeRefs}

EmptyScores == [t \in {} |-> NaN]

\* struct AppliedProcessingStep and its constructor.
AppliedProcessingStep(processing_step_opt, scores) ==
  [processing_step_opt |-> processing_step_opt, scores |-> scores]

AppliedProcessingSteps_values == {AppliedProcessingStep(o, m) : o \in StepOpts, m \in ScoreMaps}

\* steps_and_scores: the member of ScoredProcessingResult
\* written, added:   history of the calls made (last value written to each
\*                   (step, score type) pair; steps passed to a mutator)
\* result:           the value returned by the last query
\* copy:             <<>>, or <<c>> with c the steps_and_scores of an object
\*                   copy-constructed from this one
\* ncalls:           number of calls made on the object and its copy
VARIABLES steps_and_scores, written, added, result, copy, ncalls

vars == <<steps_and_scores, written, added, result, copy, ncalls>>

\* ---- the container ------------------------------------------------------
\* a lookup that never finds the key
find_miss(c, key) == 0

\* steps_and_scores.get<1>().find(key): position of the element with that
\* key, 0 for end().
find(c, key) ==
  IF \E i \in 1..Len(c) : c[i].processing_step_opt = key
  THEN CHOOSE i \in 1..Len(c) : c[i].processing_step_opt = key
  ELSE 0

\* steps_and_scores.push_back(x): the insertion is refused when the
\* ordered_unique index already holds the key.
push_back(c, x) ==
  IF find(c, x.processing_step_opt) = 0 THEN Append(c, x) ELSE c

\* the new value is added to the value already held
update_scores_sum(old, new) ==
  [t \in (DOMAIN old) \cup (DOMAIN new) |->
     IF t \in (DOMAIN old) \cap (DOMAIN new) THEN old[t] + new[t]
     ELSE IF t \in DOMAIN new THEN new[t] ELSE old[t]]

\* insert() instead of operator[]: an existing pair keeps its value
update_scores_keep(old, new) ==
  [t \in (DOMAIN old) \cup (DOMAIN new) |->
     IF t \in DOMAIN old THEN old[t] ELSE new[t]]

\* the larger of the two values is kept for a score type held by both
update_scores_max(old, new) ==
  [t \in (DOMAIN old) \cup (DOMAIN new) |->
     IF t \in (DOMAIN old) \cap (DOMAIN new)
     THEN (IF old[t] >= new[t] THEN old[t] ELSE new[t])
     ELSE IF t \in DOMAIN new THEN new[t] ELSE old[t]]

\* assignment of the whole map: old_step.scores = step.scores
update_scores_replace(old, new) == new

\* the body of the modify() lambda: old_step.scores[k] = v for every pair.
update_scores(old, new) ==
  [t \in (DOMAIN old) \cup (DOMAIN new) |->
     IF t \in DOMAIN new THEN new[t] ELSE old[t]]

\* the modified element is taken out and put back at the end
modify_relocate(c, pos, scores) ==
  LET updated == [c[pos] EXCEPT !.scores = update_scores(@, scores)]
  IN Append(SubSeq(c, 1, pos - 1) \o SubSeq(c, pos + 1, Len(c)), updated)

\* the lambda takes the element by value: the update is made on a copy
modify_by_value(c, pos, scores) == c

\* the modified element is dropped from the container
modify_erase(c, pos, scores) ==
  SubSeq(c, 1, pos - 1) \o SubSeq(c, pos + 1, Len(c))

\* steps_and_scores.get<1>().modify(step_pos, lambda): the element stays
\* where it is in the sequenced index, its key is not touched.
modify(c, pos, scores) ==
  [c EXCEPT ![pos].scores = update_scores(@, scores)]

\* ---- mutators -----------------------------------------------------------
\* the step is appended without consulting the unique index
addProcessingStep_no_unique(c, step) == Append(c, step)

addProcessingStep(c, step) ==
  LET step_pos == find(c, step.processing_step_opt)
  IN IF step_pos = 0
     THEN push_back(c, step)
     ELSE modify(c, step_pos, step.scores)

\* boost::optional<ProcessingStepRef>(step_ref): the optional made from a
\* ProcessingStepRef holds it; it is never boost::none.
engaged(step_ref) == step_ref

\* the scores are not handed to the constructor of AppliedProcessingStep
addProcessingStepRef_no_scores(c, step_ref, scores) ==
  addProcessingStep(c, AppliedProcessingStep(engaged(step_ref), EmptyScores))

addProcessingStepRef(c, step_ref, scores) ==
  addProcessingStep(c, AppliedProcessingStep(engaged(step_ref), scores))

\* a score without a processing step is not recorded
addScore_step_required(c, score_type, score, processing_step_opt) ==
  IF processing_step_opt = None THEN c
  ELSE addProcessingStep(c, AppliedProcessingStep(processing_step_opt,
                                                  [t \in {score_type} |-> score]))

addScore(c, score_type, score, processing_step_opt) ==
  LET applied == AppliedProcessingStep(processing_step_opt, EmptyScores)
      applied2 == [applied EXCEPT !.scores = update_scores(@, [t \in {score_type} |-> score])]
  IN addProcessingStep(c, applied2)

\* the first n iterations of the loop of operator+=
RECURSIVE merge_prefix(_, _, _)
merge_prefix(c, other, n) ==
  IF n = 0 THEN c
  ELSE addProcessingStep(merge_prefix(c, other, n - 1), other[n])

\* the elements of the container in the order of the ordered_unique index
RECURSIVE sort_by_key(_)
sort_by_key(c) ==
  IF c = <<>> THEN <<>>
  ELSE LET m == CHOOSE i \in 1..Len(c) :
                  \A j \in 1..Len(c) :
                    c[i].processing_step_opt <= c[j].processing_step_opt
       IN <<c[m]>> \o sort_by_key(SubSeq(c, 1, m - 1) \o SubSeq(c, m + 1, Len(c)))

\* the loop run over index 1 of other (ordered by key) instead of index 0
operator_plus_assign_by_step(c, other) ==
  merge_prefix(c, sort_by_key(other), Len(other))

operator_plus_assign(c, other) == merge_prefix(c, other, Len(other))

\* steps_and_scores.get<1>(): the same elements, ordered by key
getStepsAndScoresByStep(c) == sort_by_key(c)

\* ---- copy construction ---------------------------------------------------
\* a copy that takes the elements from index 1 (ordered by key)
copy_construct_by_step(c) == sort_by_key(c)

\* the defaulted copy constructor: steps_and_scores is copied element by
\* element, in the order of the sequenced index
copy_construct(c) == c

\* ---- queries ------------------------------------------------------------
\* a match is returned with boost::none instead of the step of the entry
RECURSIVE reverse_scan_no_step(_, _, _)
reverse_scan_no_step(c, score_ref, i) ==
  IF i = 0 THEN <<NaN, None, FALSE>>
  ELSE IF score_ref \in DOMAIN c[i].scores
       THEN <<c[i].scores[score_ref], None, TRUE>>
       ELSE reverse_scan_no_step(c, score_ref, i - 1)

\* the reverse scan of getScoreAndStep, from position i down to 1
RECURSIVE reverse_scan(_, _, _)
reverse_scan(c, score_ref, i) ==
  IF i = 0 THEN <<NaN, None, FALSE>>
  ELSE IF score_ref \in DOMAIN c[i].scores
       THEN <<c[i].scores[score_ref], c[i].processing_step_opt, TRUE>>
       ELSE reverse_scan(c, score_ref, i - 1)

\* the scan without boost::adaptors::reverse
RECURSIVE forward_scan(_, _, _)
forward_scan(c, score_ref, i) ==
  IF i > Len(c) THEN <<NaN, None, FALSE>>
  ELSE IF score_ref \in DOMAIN c[i].scores
       THEN <<c[i].scores[score_ref], c[i].processing_step_opt, TRUE>>
       ELSE forward_scan(c, score_ref, i + 1)

getScoreAndStep_forward(c, score_ref) == forward_scan(c, score_ref, 1)

getScoreAndStep(c, score_ref) == reverse_scan(c, score_ref, Len(c))

getScore(c, score_ref) ==
  LET r == getScoreAndStep(c, score_ref) IN <<r[1], r[3]>>

\* only the step is looked up; a missing score reads as a default 0.0
getScoreForStep_step_only(c, score_ref, processing_step_opt) ==
  LET step_pos == find(c, processing_step_opt)
  IN IF step_pos # 0
     THEN IF score_ref \in DOMAIN c[step_pos].scores
          THEN <<c[step_pos].scores[score_ref], TRUE>>
          ELSE <<0, TRUE>>
     ELSE <<NaN, FALSE>>

getScoreForStep(c, score_ref, processing_step_opt) ==
  LET step_pos == find(c, processing_step_opt)
  IN IF step_pos # 0 /\ score_ref \in DOMAIN c[step_pos].scores
     THEN <<c[step_pos].scores[score_ref], TRUE>>
     ELSE <<NaN, FALSE>>

\* operator[] in the scan: score_ref is default-inserted where it is missing
after_call_inserting(c, score_ref) ==
  [i \in 1..Len(c) |->
     [c[i] EXCEPT !.scores = update_scores([t \in {score_ref} |-> 0], @)]]

\* the container after a call of a const member function
after_const_call(c, score_ref) == c

\* ---- ledgers that can be passed as `other` ------------------------------
RECURSIVE SeqsUpTo(_, _)
SeqsUpTo(S, n) ==
  IF n = 0 THEN {<<>>}
  ELSE LET shorter == SeqsUpTo(S, n - 1)
       IN shorter \cup {Append(s, x) : s \in {q \in shorter : Len(q) = n - 1}, x \in S}

UniqueKeys(c) ==
  \A i, j \in 1..Len(c) :
    c[i].processing_step_opt = c[j].processing_step_opt => i = j

OtherLedgers ==
  {c \in SeqsUpTo(AppliedProcessingSteps_values, MaxOtherLen) : UniqueKeys(c)}

\* ---- history: the last value written to each (step, score type) ---------
write_all(w, opt, scores) ==
  [p \in DOMAIN w |->
     IF p[1] = opt /\ p[2] \in DOMAIN scores THEN scores[p[2]] ELSE w[p]]

RECURSIVE write_ledger(_, _, _)
write_ledger(w, other, n) ==
  IF n = 0 THEN w
  ELSE write_all(write_ledger(w, other, n - 1),
                 other[n].processing_step_opt, other[n].scores)

\* ---- the state machine --------------------------------------------------
Init ==
  /\ steps_and_scores = <<>>
  /\ written = [p \in StepOpts \X ScoreTypeRefs |-> NaN]
  /\ added = {}
  /\ result = <<>>
  /\ copy = <<>>
  /\ ncalls = 0

AddProcessingStep(step) ==
  /\ steps_and_scores' = addProcessingStep(steps_and_scores, step)
  /\ written' = write_all(written, step.processing_step_opt, step.scores)
  /\ added' = added \cup {step.processing_step_opt}
  /\ UNCHANGED <<result, copy, ncalls>>

AddProcessingStepRef(step_ref, scores) ==
  /\ steps_and_scores' = addProcessingStepRef(steps_and_scores, step_ref, scores)
  /\ written' = write_all(written, step_ref, scores)
  /\ added' = added \cup {step_ref}
  /\ UNCHANGED <<result, copy, ncalls>>

AddScore(score_type, score, processing_step_opt) ==
  /\ steps_and_scores' =
       addScore(steps_and_scores, score_type, score, processing_step_opt)
  /\ written' = [written EXCEPT ![<<processing_step_opt, score_type>>] = score]
  /\ added' = added \cup {processing_step_opt}
  /\ UNCHANGED <<result, copy, ncalls>>

Merge(other) ==
  /\ steps_and_scores' = operator_plus_assign(steps_and_scores, other)
  /\ written' = write_ledger(written, other, Len(other))
  /\ added' = added \cup {other[i].processing_step_opt : i \in 1..Len(other)}
  /\ UNCHANGED <<result, copy, ncalls>>

GetScore(score_ref) ==
  /\ result' = getScore(steps_and_scores, score_ref)
  /\ steps_and_scores' = after_const_call(steps_and_scores, score_ref)
  /\ UNCHANGED <<written, added, copy, ncalls>>

GetScoreForStep(score_ref, processing_step_opt) ==
  /\ result' = getScoreForStep(steps_and_scores, score_ref, processing_step_opt)
  /\ steps_and_scores' = after_const_call(steps_and_scores, score_ref)
  /\ UNCHANGED <<written, added, copy, ncalls>>

GetScoreAndStep(score_ref) ==
  /\ result' = getScoreAndStep(steps_and_scores, score_ref)
  /\ steps_and_scores' = after_const_call(steps_and_scores, score_ref)
  /\ UNCHANGED <<written, added, copy, ncalls>>

Next ==
  \/ \E step \in AppliedProcessingSteps_values : AddProcessingStep(step)
  \/ \E r \in ProcessingStepRefs, m \in ScoreMaps : AddProcessingStepRef(r, m)
  \/ \E t \in ScoreTypeRefs, v \in Scores, o \in StepOpts : AddScore(t, v, o)
  \/ \E other \in OtherLedgers : Merge(other)

Spec == Init /\ [][Next]_vars

\* the calls that add one step or one score
NextA ==
  \/ \E step \in AppliedProcessingSteps_values : AddProcessingStep(step)
  \/ \E r \in ProcessingStepRefs, m \in ScoreMaps : AddProcessingStepRef(r, m)
  \/ \E t \in ScoreTypeRefs, v \in Scores, o \in StepOpts : AddScore(t, v, o)

SpecA == Init /\ [][NextA]_vars

\* the mutators that build every ledger, together with the queries
NextQ ==
  \/ \E step \in AppliedProcessingSteps_values : AddProcessingStep(step)
  \/ \E t \in ScoreTypeRefs, v \in Scores, o \in StepOpts : AddScore(t, v, o)
  \/ \E t \in ScoreTypeRefs : GetScore(t)
  \/ \E t \in ScoreTypeRefs, o \in StepOpts : GetScoreForStep(t, o)
  \/ \E t \in ScoreTypeRefs : GetScoreAndStep(t)

SpecQ == Init /\ [][NextQ]_vars

\* ---- an object and a copy of it -------------------------------------------
CountCall == ncalls < MaxCopyCalls /\ ncalls' = ncalls + 1

CopyConstruct ==
  /\ copy = <<>>
  /\ CountCall
  /\ copy' = <<copy_construct(steps_and_scores)>>
  /\ UNCHANGED <<steps_and_scores, written, added, result>>

AddProcessingStepC(step) ==
  /\ CountCall
  /\ steps_and_scores' = addProcessingStep(steps_and_scores, step)
  /\ written' = write_all(written, step.processing_step_opt, step.scores)
  /\ added' = added \cup {step.processing_step_opt}
  /\ UNCHANGED <<result, copy>>

AddScoreC(score_type, score, processing_step_opt) ==
  /\ CountCall
  /\ steps_and_scores' =
       addScore(steps_and_scores, score_type, score, processing_step_opt)
  /\ written' = [written EXCEPT ![<<processing_step_opt, score_type>>] = score]
  /\ added' = added \cup {processing_step_opt}
  /\ UNCHANGED <<result, copy>>

\* this += copy
MergeC ==
  /\ copy # <<>>
  /\ CountCall
  /\ steps_and_scores' = operator_plus_assign(steps_and_scores, copy[1])
  /\ written' = write_ledger(written, copy[1], Len(copy[1]))
  /\ added' = added \cup {copy[1][i].processing_step_opt : i \in 1..Len(copy[1])}
  /\ UNCHANGED <<result, copy>>

CopyAddProcessingStep(step) ==
  /\ copy # <<>>
  /\ CountCall
  /\ copy' = <<addProcessingStep(copy[1], step)>>
  /\ UNCHANGED <<steps_and_scores, written, added, result>>

CopyAddScore(score_type, score, processing_step_opt) ==
  /\ copy # <<>>
  /\ CountCall
  /\ copy' = <<addScore(copy[1], score_type, score, processing_step_opt)>>
  /\ UNCHANGED <<steps_and_scores, written, added, result>>

\* copy += this
CopyMerge ==
  /\ copy # <<>>
  /\ CountCall
  /\ copy' = <<operator_plus_assign(copy[1], steps_and_scores)>>
  /\ UNCHANGED <<steps_and_scores, written, added, result>>

NextC ==
  \/ CopyConstruct
  \/ \E step \in AppliedProcessingSteps_values : AddProcessingStepC(step)
  \/ \E t \in ScoreTypeRefs, v \in Scores, o \in StepOpts : AddScoreC(t, v, o)
  \/ MergeC
  \/ \E step \in AppliedProcessingSteps_values : CopyAddProcessingStep(step)
  \/ \E t \in ScoreTypeRefs, v \in Scores, o \in StepOpts : CopyAddScore(t, v, o)
  \/ CopyMerge

SpecC == Init /\ [][NextC]_vars

\* ---- helpers of the properties ------------------------------------------
Keys(c) == [i \in 1..Len(c) |-> c[i].processing_step_opt]

KeySet(c) == {c[i].processing_step_opt : i \in 1..Len(c)}

IsPrefix(s, t) == Len(s) <= Len(t) /\ \A i \in 1..Len(s) : s[i] = t[i]

\* positions of the entries whose score map holds score_ref
Holders(c, score_ref) == {i \in 1..Len(c) : score_ref \in DOMAIN c[i].scores}

Max(S) == CHOOSE m \in S : \A x \in S : x <= m

\* ---- C1 -----------------------------------------------------------------
\* C1: in every reachable state no two entries of the sequence have the same
\* processing_step_opt; in particular at most one entry has boost::none.
C1_Uniqueness ==
  /\ UniqueKeys(steps_and_scores)
  /\ Cardinality({i \in 1..Len(steps_and_scores) :
                    steps_and_scores[i].processing_step_opt = None}) <= 1

\* the absent step and a real step both have an entry, and a further
\* addProcessingStep for either of them adds no second entry
C1_Witness ==
  /\ Len(steps_and_scores) = 2
  /\ added = {None, 1}
  /\ \A o \in {None, 1} :
       Len(addProcessingStep(steps_and_scores,
                             AppliedProcessingStep(o, [t \in {1} |-> 2]))) = 2

\* ---- C2 -----------------------------------------------------------------
\* C2: for every call, the sequence of processing_step_opt values before the
\* call is a prefix of the sequence after the call.
C2_OrderStability ==
  [][IsPrefix(Keys(steps_and_scores), Keys(steps_and_scores'))]_vars

\* two entries; an update of the first one leaves it first, and a further
\* step is appended after both
C2_Witness ==
  /\ Len(steps_and_scores) = 2
  /\ steps_and_scores[1].processing_step_opt = 1
  /\ steps_and_scores[2].processing_step_opt = None
  /\ Keys(addScore(steps_and_scores, 1, 2, 1)) = <<1, None>>
  /\ addScore(steps_and_scores, 1, 2, 1) # steps_and_scores

\* ---- C3 -----------------------------------------------------------------
\* C3: getScoreAndStep(T) returns the value and the step of the LAST entry
\* in sequence order whose score map holds T, with found = true; getScore(T)
\* returns the same value and flag.
C3_MostRecentFirst ==
  \A t \in ScoreTypeRefs :
    Holders(steps_and_scores, t) # {} =>
      LET last == steps_and_scores[Max(Holders(steps_and_scores, t))]
      IN /\ getScoreAndStep(steps_and_scores, t) =
              <<last.scores[t], last.processing_step_opt, TRUE>>
         /\ getScore(steps_and_scores, t) = <<last.scores[t], TRUE>>

\* P4: the step applied first holds T = 1, the step applied second T = 2
C3_Witness ==
  /\ Len(steps_and_scores) = 2
  /\ 1 \in DOMAIN steps_and_scores[1].scores
  /\ 1 \in DOMAIN steps_and_scores[2].scores
  /\ steps_and_scores[1].scores[1] = 1
  /\ steps_and_scores[2].scores[1] = 2
  /\ getScore(steps_and_scores, 1) = <<2, TRUE>>

\* ---- C4 -----------------------------------------------------------------
\* C4: getScore(T, S) returns (v, true) where v is the value of the most
\* recent write to (S, T) by any call, and not-found when the pair was never
\* written.
C4_LastWriteWins ==
  \A o \in StepOpts, t \in ScoreTypeRefs :
    getScoreForStep(steps_and_scores, t, o) =
      IF written[<<o, t>>] = NaN THEN <<NaN, FALSE>>
      ELSE <<written[<<o, t>>], TRUE>>

\* P3: a pair holding 1 is written again with 2; another pair of the same
\* step was never written
C4_Witness ==
  /\ written[<<1, 1>>] = 1
  /\ written[<<1, 2>>] = NaN
  /\ getScoreForStep(steps_and_scores, 1, 1) = <<1, TRUE>>
  /\ getScoreForStep(addScore(steps_and_scores, 1, 2, 1), 1, 1) = <<2, TRUE>>
  /\ getScoreForStep(steps_and_scores, 2, 1) = <<NaN, FALSE>>

\* ---- C5 -----------------------------------------------------------------
EntryOf(c, key) == c[CHOOSE i \in 1..Len(c) : c[i].processing_step_opt = key]

OnlyIn(b, a) ==
  LET new(k) == k \notin KeySet(a) IN SelectSeq(Keys(b), new)

MergeResult(a, b, r) ==
  /\ Keys(r) = Keys(a) \o OnlyIn(b, a)
  /\ \A i \in 1..Len(r) :
       LET k == r[i].processing_step_opt
       IN IF k \in KeySet(a) /\ k \in KeySet(b)
          THEN LET sa == EntryOf(a, k).scores
                   sb == EntryOf(b, k).scores
               IN /\ DOMAIN r[i].scores = (DOMAIN sa) \cup (DOMAIN sb)
                  /\ \A t \in DOMAIN sb : r[i].scores[t] = sb[t]
                  /\ \A t \in (DOMAIN sa) \ (DOMAIN sb) : r[i].scores[t] = sa[t]
          ELSE IF k \in KeySet(a)
               THEN r[i].scores = EntryOf(a, k).scores
               ELSE r[i].scores = EntryOf(b, k).scores

\* C5: after A += B the sequence of A is A's old sequence followed by the
\* steps only in B in B's order; a step in both has the union of the two
\* score maps with B's value where both hold the type; a step only in A keeps
\* its map; a step only in B gets B's map.
C5_MergeResult ==
  \A other \in OtherLedgers :
    MergeResult(steps_and_scores, other,
                operator_plus_assign(steps_and_scores, other))

\* P6: A = (S1, T=1), B = (S1, T=2), (absent, T=1)
C5_Witness ==
  /\ steps_and_scores = <<AppliedProcessingStep(1, [t \in {1} |-> 1])>>
  /\ operator_plus_assign(steps_and_scores,
        <<AppliedProcessingStep(1, [t \in {1} |-> 2]),
          AppliedProcessingStep(None, [t \in {1} |-> 1])>>)
     = <<AppliedProcessingStep(1, [t \in {1} |-> 2]),
         AppliedProcessingStep(None, [t \in {1} |-> 1])>>

\* ---- C6 -----------------------------------------------------------------
\* C6: getScore(T) and getScoreAndStep(T) return found = false exactly when
\* no entry holds T, and then the value is NaN and the step is absent;
\* getScore(T, S) returns (NaN, false) exactly when there is no entry for S
\* or the entry for S has no value for T.
C6_MissResult ==
  \A t \in ScoreTypeRefs :
    LET r == getScoreAndStep(steps_and_scores, t)
        g == getScore(steps_and_scores, t)
        miss == Holders(steps_and_scores, t) = {}
    IN /\ (r[3] = FALSE) <=> miss
       /\ (g[2] = FALSE) <=> miss
       /\ miss => (r = <<NaN, None, FALSE>> /\ g = <<NaN, FALSE>>)
       /\ \A o \in StepOpts :
            LET q == getScoreForStep(steps_and_scores, t, o)
                absent == \/ o \notin KeySet(steps_and_scores)
                          \/ t \notin DOMAIN EntryOf(steps_and_scores, o).scores
            IN /\ (q = <<NaN, FALSE>>) <=> absent
               /\ (q[2] = FALSE) <=> absent

\* a ledger with entries where one score type is held and the other is not
C6_Witness ==
  /\ Len(steps_and_scores) = 2
  /\ getScore(steps_and_scores, 1) = <<1, TRUE>>
  /\ getScoreAndStep(steps_and_scores, 2) = <<NaN, None, FALSE>>
  /\ getScoreForStep(steps_and_scores, 2, 1) = <<NaN, FALSE>>

\* ---- C7 -----------------------------------------------------------------
\* C7: addScore(T, v) without a step creates or updates the single entry
\* whose processing_step_opt is absent, so that getScore(T, absent) is
\* (v, true) afterwards; and for every step never passed to a mutator,
\* getScore(T, step) is (NaN, false) whatever the other entries hold.
C7_AbsentStepScores ==
  [][/\ \A t \in ScoreTypeRefs, v \in Scores :
          AddScore(t, v, None) =>
            /\ getScoreForStep(steps_and_scores', t, None) = <<v, TRUE>>
            /\ Cardinality({i \in 1..Len(steps_and_scores') :
                  steps_and_scores'[i].processing_step_opt = None}) = 1
     /\ \A o \in StepOpts \ added', t \in ScoreTypeRefs :
          getScoreForStep(steps_and_scores', t, o) = <<NaN, FALSE>>]_vars

\* P5: only the absent step was used; it holds T, step 1 was never added
C7_Witness ==
  /\ added = {None}
  /\ written[<<None, 1>>] = 2
  /\ getScoreForStep(steps_and_scores, 1, None) = <<2, TRUE>>
  /\ getScoreForStep(steps_and_scores, 1, 1) = <<NaN, FALSE>>

\* ---- C8 -----------------------------------------------------------------
\* C8: when addProcessingStep(step) finds an entry with the step's key, the
\* only change is that the pairs of step.scores are written into that
\* entry's score map: its other score types keep their values, every other
\* entry is unchanged, the length and the order of the sequence are
\* unchanged.
C8_UpdateFrame ==
  [][\A step \in AppliedProcessingSteps_values :
       (AddProcessingStep(step) /\
        step.processing_step_opt \in KeySet(steps_and_scores)) =>
         /\ Keys(steps_and_scores') = Keys(steps_and_scores)
         /\ \A i \in 1..Len(steps_and_scores) :
              IF steps_and_scores[i].processing_step_opt = step.processing_step_opt
              THEN /\ DOMAIN steps_and_scores'[i].scores =
                        (DOMAIN steps_and_scores[i].scores) \cup (DOMAIN step.scores)
                   /\ \A t \in DOMAIN step.scores :
                        steps_and_scores'[i].scores[t] = step.scores[t]
                   /\ \A t \in (DOMAIN steps_and_scores[i].scores) \ (DOMAIN step.scores) :
                        steps_and_scores'[i].scores[t] = steps_and_scores[i].scores[t]
              ELSE steps_and_scores'[i] = steps_and_scores[i]]_vars

\* an existing first entry with two score types gets one of them rewritten
C8_Witness ==
  /\ steps_and_scores =
       <<AppliedProcessingStep(1, [t \in {1, 2} |-> 1]),
         AppliedProcessingStep(None, [t \in {1} |-> 1])>>
  /\ addProcessingStep(steps_and_scores,
                        AppliedProcessingStep(1, [t \in {1} |-> 2]))
     = <<AppliedProcessingStep(1, [t \in {1, 2} |-> IF t = 1 THEN 2 ELSE 1]),
         AppliedProcessingStep(None, [t \in {1} |-> 1])>>
  /\ addProcessingStep(steps_and_scores, AppliedProcessingStep(1, EmptyScores))
     = steps_and_scores

\* ---- C9 -----------------------------------------------------------------
WellFormed(c) ==
  /\ UniqueKeys(c)
  /\ \A i \in 1..Len(c) :
       c[i].processing_step_opt \in StepOpts /\ c[i].scores \in ScoreMaps

\* the call took effect: the step has an entry holding the scores passed
Stored(c, step) ==
  /\ step.processing_step_opt \in KeySet(c)
  /\ \A t \in DOMAIN step.scores :
       /\ t \in DOMAIN EntryOf(c, step.processing_step_opt).scores
       /\ EntryOf(c, step.processing_step_opt).scores[t] = step.scores[t]

GoodCall(before, after, step) ==
  /\ WellFormed(after)
  /\ IsPrefix(Keys(before), Keys(after))
  /\ Stored(after, step)

\* C9: for every ledger state and every argument, addProcessingStep,
\* addScore and operator+= take effect (no call is refused or dropped) and
\* the uniqueness, order and one-value-per-score-type invariants hold after
\* the call and after each entry of other that operator+= has applied.
C9_MutatorsTotal ==
  /\ \A step \in AppliedProcessingSteps_values :
       GoodCall(steps_and_scores, addProcessingStep(steps_and_scores, step), step)
  /\ \A r \in ProcessingStepRefs, m \in ScoreMaps :
       GoodCall(steps_and_scores, addProcessingStepRef(steps_and_scores, r, m),
                AppliedProcessingStep(r, m))
  /\ \A t \in ScoreTypeRefs, v \in Scores, o \in StepOpts :
       GoodCall(steps_and_scores, addScore(steps_and_scores, t, v, o),
                AppliedProcessingStep(o, [x \in {t} |-> v]))
  /\ \A other \in OtherLedgers \cup {steps_and_scores} :
       \A n \in 1..Len(other) :
         GoodCall(merge_prefix(steps_and_scores, other, n - 1),
                  merge_prefix(steps_and_scores, other, n), other[n])

\* a full ledger: an empty score map, the empty other and other = self all
\* leave it as it is
C9_Witness ==
  /\ Len(steps_and_scores) = 2
  /\ \A i \in 1..2 : DOMAIN steps_and_scores[i].scores = ScoreTypeRefs
  /\ addProcessingStep(steps_and_scores, AppliedProcessingStep(None, EmptyScores))
       = steps_and_scores
  /\ operator_plus_assign(steps_and_scores, <<>>) = steps_and_scores
  /\ operator_plus_assign(steps_and_scores, steps_and_scores) = steps_and_scores

\* ---- C10 ----------------------------------------------------------------
\* C10: getScore(T), getScore(T, S) and getScoreAndStep(T) leave the ledger
\* unchanged for every argument, found or not, so the same query made again
\* after any other queries returns the same result.
C10_QueriesReadOnly ==
  [][/\ \A t \in ScoreTypeRefs :
          GetScore(t) =>
            /\ steps_and_scores' = steps_and_scores
            /\ getScore(steps_and_scores', t) = result'
     /\ \A t \in ScoreTypeRefs, o \in StepOpts :
          GetScoreForStep(t, o) =>
            /\ steps_and_scores' = steps_and_scores
            /\ getScoreForStep(steps_and_scores', t, o) = result'
     /\ \A t \in ScoreTypeRefs :
          GetScoreAndStep(t) =>
            /\ steps_and_scores' = steps_and_scores
            /\ getScoreAndStep(steps_and_scores', t) = result'
     /\ (result' # result) =>
          (steps_and_scores' = steps_and_scores /\ written' = written
           /\ added' = added)]_vars

\* a query that found a score in the second of two entries has returned
C10_Witness ==
  /\ Len(steps_and_scores) = 2
  /\ steps_and_scores[2].processing_step_opt = 1
  /\ result = <<2, 1, TRUE>>
  /\ getScoreAndStep(steps_and_scores, 2) = <<NaN, None, FALSE>>
\* ---- C11 ----------------------------------------------------------------
\* the score types held for a key, {} when the key has no entry
TypesOf(c, key) ==
  IF key \in KeySet(c) THEN DOMAIN EntryOf(c, key).scores ELSE {}

\* the growth of the sequence by a call that passes the step `key`
GrowsFor(c, d, key) ==
  Len(d) = Len(c) + (IF key \in KeySet(c) THEN 0 ELSE 1)

\* some addProcessingStep or addScore call that passes the step `key`
AddCallFor(key) ==
  \/ \E m \in ScoreMaps : AddProcessingStep(AppliedProcessingStep(key, m))
  \/ \E t \in ScoreTypeRefs, v \in Scores : AddScore(t, v, key)
  \/ \E r \in ProcessingStepRefs \cap {key}, m \in ScoreMaps :
       AddProcessingStepRef(r, m)

\* C11: across every call the set of processing_step_opt values present and
\* the set of score types of each entry only grow; one addProcessingStep or
\* addScore call lengthens the sequence by at most one, and by exactly one
\* when its processing_step_opt was not present before.
C11_NeverRemoved ==
  [][/\ KeySet(steps_and_scores) \subseteq KeySet(steps_and_scores')
     /\ \A o \in KeySet(steps_and_scores) :
          TypesOf(steps_and_scores, o) \subseteq TypesOf(steps_and_scores', o)
     /\ \A o \in StepOpts :
          GrowsFor(steps_and_scores, steps_and_scores', o) \/ ~AddCallFor(o)]_vars

\* one entry: a call for its step keeps the length, a call for the other
\* step lengthens the sequence by one, and both keep what was there
C11_Witness ==
  /\ Keys(steps_and_scores) = <<1>>
  /\ DOMAIN steps_and_scores[1].scores = {1}
  /\ Len(addScore(steps_and_scores, 2, 1, 1)) = 1
  /\ TypesOf(addScore(steps_and_scores, 2, 1, 1), 1) = {1, 2}
  /\ Keys(addScore(steps_and_scores, 2, 1, None)) = <<1, None>>
\* ---- C12 ----------------------------------------------------------------
\* the (step, score type) pairs that a and b both hold with different values
Collisions(a, b) ==
  {p \in StepOpts \X ScoreTypeRefs :
     /\ p[2] \in TypesOf(a, p[1]) \cap TypesOf(b, p[1])
     /\ EntryOf(a, p[1]).scores[p[2]] # EntryOf(b, p[1]).scores[p[2]]}

\* C12: operator+= is not commutative: whenever A and B hold a (step, score
\* type) pair with different values, A += B and B += A differ in the value
\* of that pair, and whenever A and B are non-empty and share no step they
\* differ in the order of the steps.
C12_MergeNotCommutative ==
  \A other \in OtherLedgers :
    LET ab == operator_plus_assign(steps_and_scores, other)
        ba == operator_plus_assign(other, steps_and_scores)
    IN /\ \A p \in Collisions(steps_and_scores, other) :
            getScoreForStep(ab, p[2], p[1]) # getScoreForStep(ba, p[2], p[1])
       /\ (/\ steps_and_scores # <<>>
           /\ other # <<>>
           /\ KeySet(steps_and_scores) \cap KeySet(other) = {})
            => Keys(ab) # Keys(ba)

\* A = (S1, T=1): with B = (S1, T=2) the two merges differ in the value of
\* (S1, T), with B = (absent) they differ in the order of the steps
C12_Witness ==
  /\ steps_and_scores = <<AppliedProcessingStep(1, [t \in {1} |-> 1])>>
  /\ LET b == <<AppliedProcessingStep(1, [t \in {1} |-> 2])>>
     IN /\ operator_plus_assign(steps_and_scores, b) = b
        /\ operator_plus_assign(b, steps_and_scores) = steps_and_scores
  /\ LET b == <<AppliedProcessingStep(None, EmptyScores)>>
     IN /\ Keys(operator_plus_assign(steps_and_scores, b)) = <<1, None>>
        /\ Keys(operator_plus_assign(b, steps_and_scores)) = <<None, 1>>
\* ---- C13 ----------------------------------------------------------------
\* C13: a copy-constructed ledger has the same entries in the same order
\* with the same score maps; a later addProcessingStep, addScore or
\* operator+= on the copy leaves the original unchanged and the other way
\* round; A += B leaves B unchanged.
C13_CopyIndependence ==
  [][/\ (copy = <<>> /\ copy' # <<>>) =>
          (copy'[1] = steps_and_scores /\ steps_and_scores' = steps_and_scores)
     /\ (copy # <<>> /\ copy' # copy) => steps_and_scores' = steps_and_scores
     /\ (steps_and_scores' # steps_and_scores) => copy' = copy]_vars

\* the copy was taken from a ledger whose sequence order is not the key
\* order, and then a score was added to the copy only
C13_Witness ==
  /\ copy # <<>>
  /\ Keys(steps_and_scores) = <<1, None>>
  /\ Keys(copy[1]) = <<1, None>>
  /\ copy[1] # steps_and_scores
\* ---- C14 ----------------------------------------------------------------
Elements(c) == {c[i] : i \in 1..Len(c)}

\* C14: the view keyed by processing_step_opt and the sequence hold the same
\* entries; a score written to an existing entry through the keyed lookup
\* of addProcessingStep is what the reverse scan of the sequence returns,
\* and every entry of the sequence is found by the keyed lookup of
\* getScore(T, S) with the same scores.
C14_ViewConsistency ==
  /\ Elements(getStepsAndScoresByStep(steps_and_scores)) = Elements(steps_and_scores)
  /\ Len(getStepsAndScoresByStep(steps_and_scores)) = Len(steps_and_scores)
  /\ \A t \in ScoreTypeRefs :
       LET r == getScoreAndStep(steps_and_scores, t)
       IN r[3] => r[1] = written[<<r[2], t>>]
  /\ \A i \in 1..Len(steps_and_scores) :
       /\ find(steps_and_scores, steps_and_scores[i].processing_step_opt) = i
       /\ \A t \in DOMAIN steps_and_scores[i].scores :
            getScoreForStep(steps_and_scores, t,
                            steps_and_scores[i].processing_step_opt)
              = <<steps_and_scores[i].scores[t], TRUE>>

\* the sequence order (1, absent) differs from the key order (absent, 1);
\* the last entry holds a value that a further keyed update replaces, and
\* the scan returns the new value
C14_Witness ==
  /\ Keys(steps_and_scores) = <<1, None>>
  /\ Keys(getStepsAndScoresByStep(steps_and_scores)) = <<None, 1>>
  /\ getScoreAndStep(steps_and_scores, 1) = <<1, None, TRUE>>
  /\ getScoreAndStep(addScore(steps_and_scores, 1, 2, None), 1) = <<2, None, TRUE>>
\* ---- C15 ----------------------------------------------------------------
\* C15 as stated: for every processing_step_opt value, boost::none included,
\* the convenience form can be called for it and gives the ledger of
\* addProcessingStep(AppliedProcessingStep(that value, scores)).
C15_Original ==
  \A o \in StepOpts, m \in ScoreMaps :
    \E r \in ProcessingStepRefs :
      /\ engaged(r) = o
      /\ addProcessingStepRef(steps_and_scores, r, m)
           = addProcessingStep(steps_and_scores, AppliedProcessingStep(o, m))

\* C15 (amended): for every ProcessingStepRef the convenience form gives the
\* ledger of addProcessingStep(AppliedProcessingStep(step_ref, scores)), which
\* is the merge of that one step; its step is never boost::none, so the
\* absent-step entry is neither created nor changed; with the default empty
\* scores a new step gets an entry with an empty score map.
C15_ConvenienceForm ==
  \A r \in ProcessingStepRefs, m \in ScoreMaps :
    LET res == addProcessingStepRef(steps_and_scores, r, m)
    IN /\ res = addProcessingStep(steps_and_scores, AppliedProcessingStep(r, m))
       /\ MergeResult(steps_and_scores, <<AppliedProcessingStep(r, m)>>, res)
       /\ engaged(r) # None
       /\ (None \in KeySet(res)) <=> (None \in KeySet(steps_and_scores))
       /\ None \in KeySet(steps_and_scores) =>
            EntryOf(res, None) = EntryOf(steps_and_scores, None)
       /\ (m = EmptyScores /\ r \notin KeySet(steps_and_scores)) =>
            res = Append(steps_and_scores, AppliedProcessingStep(r, EmptyScores))

\* only the absent step has an entry: the convenience form with the default
\* scores appends step 1 with an empty map, with scores it appends them
C15_Witness ==
  /\ steps_and_scores = <<AppliedProcessingStep(None, [t \in {1} |-> 1])>>
  /\ addProcessingStepRef(steps_and_scores, 1, EmptyScores)
       = <<AppliedProcessingStep(None, [t \in {1} |-> 1]),
           AppliedProcessingStep(1, EmptyScores)>>
  /\ addProcessingStepRef(steps_and_scores, 1, [t \in {1} |-> 2])
       = <<AppliedProcessingStep(None, [t \in {1} |-> 1]),
           AppliedProcessingStep(1, [t \in {1} |-> 2])>>
\* ---- C16 ----------------------------------------------------------------
\* a call that writes the scores m to the step `key` only: addProcessingStep,
\* addScore for a single score, or operator+= with a one-step other
UpdateOf(key, m) ==
  \/ AddProcessingStep(AppliedProcessingStep(key, m))
  \/ \E t \in DOMAIN m : m = [x \in {t} |-> m[t]] /\ AddScore(t, m[t], key)
  \/ Merge(<<AppliedProcessingStep(key, m)>>)

\* the history of the step shows the writes of m (true of every UpdateOf)
Recorded(key, m) ==
  /\ added' = added \cup {key}
  /\ \A x \in DOMAIN m : written'[<<key, x>>] = m[x]

\* what the queries return after an update of `key` with m, when the entry
\* at position last shadowed it for score type t before the call
StillShadowed(c, d, t, last, key, m) ==
  /\ getScoreAndStep(d, t) =
       <<c[last].scores[t], c[last].processing_step_opt, TRUE>>
  /\ getScore(d, t) = <<c[last].scores[t], TRUE>>
  /\ \A x \in DOMAIN m : getScoreForStep(d, x, key) = <<m[x], TRUE>>

\* C16: when two entries hold score type T, a further addScore,
\* addProcessingStep or one-step operator+= for the step applied first
\* leaves getScore(T) and getScoreAndStep(T) at the value and step of the
\* entry applied last, while getScore(T, first step) returns the new value.
C16_ShadowingByFirstApplication ==
  [][\A t \in ScoreTypeRefs :
       LET H == Holders(steps_and_scores, t)
       IN Cardinality(H) >= 2 =>
            \A i \in H \ {Max(H)}, m \in ScoreMaps :
              \/ ~Recorded(steps_and_scores[i].processing_step_opt, m)
              \/ StillShadowed(steps_and_scores, steps_and_scores', t, Max(H),
                               steps_and_scores[i].processing_step_opt, m)
              \/ ~UpdateOf(steps_and_scores[i].processing_step_opt, m)]_vars

\* S1 = 1 applied first with T=1, the absent step applied second with T=1;
\* after addScore(T, 2, S1) the scan still returns the second entry
C16_Witness ==
  /\ steps_and_scores =
       <<AppliedProcessingStep(1, [t \in {1} |-> 1]),
         AppliedProcessingStep(None, [t \in {1} |-> 1])>>
  /\ LET d == addScore(steps_and_scores, 1, 2, 1)
     IN /\ getScoreAndStep(d, 1) = <<1, None, TRUE>>
        /\ getScore(d, 1) = <<1, TRUE>>
        /\ getScoreForStep(d, 1, 1) = <<2, TRUE>>
\* ---- C17 ----------------------------------------------------------------
\* C17: if getScoreAndStep(T) returns (v, s, true) then getScore(T, s)
\* returns (v, true); and getScore(T) finds a score exactly when
\* getScore(T, s) finds one for some processing_step_opt s, absent included.
C17_ScanAgreesWithLookup ==
  \A t \in ScoreTypeRefs :
    LET r == getScoreAndStep(steps_and_scores, t)
    IN /\ r[3] => getScoreForStep(steps_and_scores, t, r[2]) = <<r[1], TRUE>>
       /\ getScore(steps_and_scores, t)[2] <=>
            \E o \in StepOpts : getScoreForStep(steps_and_scores, t, o)[2]

\* two entries hold T with different values, the scan returns the one of
\* step 1; the other score type is found by neither lookup
C17_Witness ==
  /\ Keys(steps_and_scores) = <<None, 1>>
  /\ getScoreAndStep(steps_and_scores, 1) = <<2, 1, TRUE>>
  /\ getScoreForStep(steps_and_scores, 1, 1) = <<2, TRUE>>
  /\ getScoreForStep(steps_and_scores, 1, None) = <<1, TRUE>>
  /\ getScore(steps_and_scores, 2) = <<NaN, FALSE>>

\* ---- C18 ----------------------------------------------------------------
\* C18: applying A += B twice gives the same ledger as applying it once;
\* merging a ledger of identical content into A leaves A unchanged; merging
\* an empty ledger into A leaves A unchanged.
C18_MergeIdempotent ==
  /\ \A other \in OtherLedgers :
       LET once == operator_plus_assign(steps_and_scores, other)
       IN operator_plus_assign(once, other) = once
  /\ operator_plus_assign(steps_and_scores, steps_and_scores) = steps_and_scores
  /\ operator_plus_assign(steps_and_scores, <<>>) = steps_and_scores

\* A = (S1, T=1), B = (S1, T=2), (absent, T=1): the second A += B changes
\* nothing, and A += A and A += empty leave A as it is
C18_Witness ==
  /\ steps_and_scores = <<AppliedProcessingStep(1, [t \in {1} |-> 1])>>
  /\ LET b == <<AppliedProcessingStep(1, [t \in {1} |-> 2]),
                AppliedProcessingStep(None, [t \in {1} |-> 1])>>
     IN /\ operator_plus_assign(steps_and_scores, b) = b
        /\ operator_plus_assign(operator_plus_assign(steps_and_scores, b), b) = b
  /\ operator_plus_assign(steps_and_scores, steps_and_scores) = steps_and_scores
====
